---- MODULE Spec2Model ----
(***************************************************************************)
(* Model of the Telegram analytics bot: the message classifier             *)
(* (app/filters.py), the rule and message store (app/db.py) and the run    *)
(* orchestrator (app/main.py, app/scheduler.py).                           *)
(*                                                                         *)
(* Texts are sequences of one-character strings, so that lower() and the   *)
(* substring test `kw in text` are computed and not assumed.  The Cyrillic *)
(* letters of the personal keyword "dom" (house) are written "d", "o", "m". *)
(***************************************************************************)
EXTENDS Integers, Sequences, FiniteSets, TLC

(* ------------------------------ bounds -------------------------------- *)
\* rows the filters table may hold (add_filter is not offered beyond it)
MaxRows == 3
\* fragments a message text is assembled from
MaxFrags == 2
\* the clock stops at this tick
MaxTime == 3
\* rows the messages table may hold
MaxMsgs == 1
\* entries a per-chat summary may hold in each of its three lists
MaxAgreements == 4
MaxRisks == 2
MaxRecs == 3
\* bulleted lines a section of a provider response may hold
MaxBullets == 2
\* messages a store holds when a bot is started on it
MaxBatch == 2
\* rows the runs table may hold
MaxRuns == 2

(* ------------------------------ values -------------------------------- *)
\* Python's None where a text is expected (a text no fragment yields)
None == <<"None">>

\* no call recorded
NoCall == [called |-> FALSE]

\* no invocation of run_hourly_analysis
NoRun == [started |-> FALSE]

ChatIds == {"c1", "c2"}

\* str.lower() on one character
LowerChar(ch) ==
    CASE ch = "A" -> "a"
      [] ch = "B" -> "b"
      [] ch = "I" -> "i"
      [] OTHER -> ch

\* str.lower() on a text
Lower(s) == [i \in 1..Len(s) |-> LowerChar(s[i])]

\* Python's `kw in text` on strings: kw occurs as a contiguous substring
IsSubstring(kw, text) ==
    \E i \in 0..(Len(text) - Len(kw)) :
        \A j \in 1..Len(kw) : text[i + j] = kw[j]

\* MessageFilter.WORK_KEYWORDS: the entries "AI" and "BI" of the list
WORK_KEYWORDS == << <<"A", "I">>, <<"B", "I">> >>

\* MessageFilter.PERSONAL_KEYWORDS: the entry "dom" (house) of the list
PERSONAL_KEYWORDS == << <<"d", "o", "m">> >>

\* the set of the elements of a list, Python's set(list)
SetOf(seq) == {seq[i] : i \in DOMAIN seq}

\* text fragments the inputs are assembled from
Frags == { <<"A", "I">>, <<"a">>, <<"b", "i">>, <<"d", "o", "m">> }

RECURSIVE Flatten(_)
Flatten(ss) == IF ss = <<>> THEN <<>> ELSE Head(ss) \o Flatten(Tail(ss))

SeqsUpTo(S, n) == UNION {[1..k -> S] : k \in 0..n}

\* message texts: the concatenations of at most MaxFrags fragments
Texts == {Flatten(ss) : ss \in SeqsUpTo(Frags, MaxFrags)}

\* chat titles: the empty title (chat.title or "") and one title per fragment
Titles == {<<>>} \cup Frags

\* the words an operator may pass to /filter add keyword
KeywordInputs == { <<"A", "I">>, <<"a", "b">> }

(* ------------------------------ state --------------------------------- *)
VARIABLES
    filters,          \* table filters: the rows, in id order, [kind, value]
    allow_chats,      \* MessageFilter.allow_chats
    deny_chats,       \* MessageFilter.deny_chats
    custom_keywords,  \* MessageFilter.custom_keywords
    denyDone,         \* chats whose add_deny_chat returned True (history)
    lastChat,         \* the is_work_chat call made last, under the current rules
    lastMsg,          \* the is_work_message call made last, under the current rules
    lastMerge,        \* the reports given to the merge of a digest, and its result
    lastParse,        \* the response given to _parse_gpt_response, and its result
    lastContext,      \* the messages given to _prepare_context, and its result
    now,              \* datetime.now(), in ticks
    target_user_id,   \* whether TARGET_USER_ID is configured
    chats,            \* table chats: rows [chat_id, title, is_work], chat_id unique
    messages,         \* table messages: the rows, in id order, [chat_id, text, ts]
    runs,             \* table runs: the rows, in id order
    reports,          \* table reports: the rows, in id order, [run_id, chat_id]
    pc,               \* where each trigger's coroutine stands
    run,              \* the locals of the Run each coroutine is executing
    last,             \* the invocation of run_hourly_analysis started last (history)
    sent,             \* the reports bot.send_message delivered to the target
    archive_manager,  \* whether an ArchiveManager was constructed
    archived          \* the run ids _archive_results has handled

filterVars == <<filters, allow_chats, deny_chats, custom_keywords, denyDone>>
callVars == <<lastChat, lastMsg, lastMerge, lastParse, lastContext>>
runVars == <<now, target_user_id, chats, messages, runs, reports, pc, run,
             last, sent, archive_manager, archived>>
vars == <<filters, allow_chats, deny_chats, custom_keywords, denyDone,
          lastChat, lastMsg, lastMerge, lastParse, lastContext, now, target_user_id, chats, messages, runs,
          reports, pc, run, last, sent, archive_manager, archived>>

(* --------------------------- the rule store --------------------------- *)
\* DatabaseManager.add_filter: INSERT OR REPLACE INTO filters (kind, value).
\* The table's only key is the autoincrement id, which the statement does not
\* give, so no row ever conflicts and the insert appends a row.
add_filter(rows, kind, value) == Append(rows, [kind |-> kind, value |-> value])

\* DatabaseManager.get_filters: every row, or [] when the read raises
get_filters(rows, readOK) == IF readOK THEN rows ELSE <<>>

\* MessageFilter._load_filters: the three sets rebuilt from the rows read
load_filters(rows) ==
    [allow  |-> {rows[i].value : i \in {j \in DOMAIN rows : rows[j].kind = "allow_chat"}},
     deny   |-> {rows[i].value : i \in {j \in DOMAIN rows : rows[j].kind = "deny_chat"}},
     custom |-> {Lower(rows[i].value) :
                    i \in {j \in DOMAIN rows : rows[j].kind = "keyword"}}]

InitFilter ==
    /\ filters = <<>>
    /\ allow_chats = {}
    /\ deny_chats = {}
    /\ custom_keywords = {}
    /\ denyDone = {}

InitCalls ==
    /\ lastChat = NoCall
    /\ lastMsg = NoCall
    /\ lastMerge = NoCall
    /\ lastParse = NoCall
    /\ lastContext = NoCall

\* the two sources of a Run: the scheduler job and the /analyze handler
Triggers == {"periodic", "manual"}

\* TelegramAnalyticsBot.__init__ on a fresh database, no coroutine started
InitRun ==
    /\ now = 0
    /\ target_user_id \in BOOLEAN
    /\ chats = {}
    /\ messages = <<>>
    /\ runs = <<>>
    /\ reports = <<>>
    /\ pc = [p \in Triggers |-> "idle"]
    /\ run = [p \in Triggers |-> NoRun]
    /\ last = NoRun
    /\ sent = <<>>
    /\ archive_manager \in BOOLEAN
    /\ archived = {}

\* a bot started on an empty store, with a target configured
InitFresh == InitFilter /\ InitCalls /\ InitRun /\ target_user_id /\ ~archive_manager

(* ----------------------------- classifier ---------------------------- *)
\* MessageFilter._check_work_keywords: a built-in keyword, lowered, occurs in
\* the lowered text, or a custom keyword (stored lowered) does
check_work_keywords(custom, text) ==
    IF text = None \/ text = <<>> THEN FALSE
    ELSE \/ \E i \in DOMAIN WORK_KEYWORDS :
                IsSubstring(Lower(WORK_KEYWORDS[i]), Lower(text))
         \/ \E kw \in custom : IsSubstring(kw, Lower(text))

\* is_work_chat with the deny-list consulted before the allow-list
is_work_chat_deny_first(allow, deny, custom, chat_id, title) ==
    IF chat_id \in deny THEN FALSE
    ELSE IF allow # {} /\ chat_id \in allow THEN TRUE
    ELSE IF allow = {} THEN check_work_keywords(custom, title)
    ELSE FALSE

\* is_work_chat with the keyword scan also tried when the allow-list is not empty
is_work_chat_keywords_always(allow, deny, custom, chat_id, title) ==
    IF allow # {} /\ chat_id \in allow THEN TRUE
    ELSE IF chat_id \in deny THEN FALSE
    ELSE check_work_keywords(custom, title)

\* MessageFilter.is_work_chat
is_work_chat(allow, deny, custom, chat_id, title) ==
    IF allow # {} /\ chat_id \in allow THEN TRUE
    ELSE IF chat_id \in deny THEN FALSE
    ELSE IF allow = {} THEN check_work_keywords(custom, title)
    ELSE FALSE

\* the loop `for keyword in PERSONAL_KEYWORDS: if keyword.lower() in text_lower`
RECURSIVE CountListMatches(_, _)
CountListMatches(kws, text_lower) ==
    IF kws = <<>> THEN 0
    ELSE (IF IsSubstring(Lower(Head(kws)), text_lower) THEN 1 ELSE 0)
         + CountListMatches(Tail(kws), text_lower)

\* the loop `for keyword in all_keywords: if keyword.lower() in text_lower`
\* over the set all_keywords = set(WORK_KEYWORDS) | custom_keywords, whose
\* elements are the keywords as written (the set compares them case-sensitively)
CountSetMatches(kws, text_lower) ==
    Cardinality({kw \in kws : IsSubstring(Lower(kw), text_lower)})

work_count(custom, text) ==
    CountSetMatches(SetOf(WORK_KEYWORDS) \cup custom, Lower(text))

personal_count(text) == CountListMatches(PERSONAL_KEYWORDS, Lower(text))

\* is_work_message with a tie counted as work
is_work_message_tie_is_work(custom, text) ==
    IF text = None \/ text = <<>> THEN FALSE
    ELSE work_count(custom, text) >= personal_count(text)

\* MessageFilter.is_work_message
is_work_message(custom, text) ==
    IF text = None \/ text = <<>> THEN FALSE
    ELSE work_count(custom, text) > personal_count(text)

(* ------------------------- classifier operations ---------------------- *)
\* lastChat and lastMsg record a call made under the rules now in memory: a
\* mutation of the rules forgets them.
\* the in-memory rule set after `result = db.add_filter(kind, value); if result:
\* <set>.add(value); _load_filters()`: the reload replaces all three sets
Reloaded(rows, readOK) == load_filters(get_filters(rows, readOK))

MutateAdd(kind, value, writeOK, readOK) ==
    /\ writeOK => Len(filters) < MaxRows
    /\ IF writeOK
       THEN LET rows == add_filter(filters, kind, value)
                m == Reloaded(rows, readOK)
            IN /\ filters' = rows
               /\ allow_chats' = m.allow
               /\ deny_chats' = m.deny
               /\ custom_keywords' = m.custom
       ELSE UNCHANGED <<filters, allow_chats, deny_chats, custom_keywords>>
    /\ lastChat' = NoCall
    /\ lastMsg' = NoCall
    /\ UNCHANGED <<lastMerge, lastParse, lastContext>>
    /\ UNCHANGED runVars

\* MessageFilter.add_allow_chat
add_allow_chat(c, writeOK, readOK) ==
    /\ MutateAdd("allow_chat", c, writeOK, readOK)
    /\ UNCHANGED denyDone

\* MessageFilter.add_deny_chat
add_deny_chat(c, writeOK, readOK) ==
    /\ MutateAdd("deny_chat", c, writeOK, readOK)
    /\ denyDone' = IF writeOK THEN denyDone \cup {c} ELSE denyDone

\* MessageFilter.add_keyword: the keyword is lowered before it is stored
add_keyword(kw, writeOK, readOK) ==
    /\ MutateAdd("keyword", Lower(kw), writeOK, readOK)
    /\ UNCHANGED denyDone

\* MessageFilter.remove_allow_chat: discards from the in-memory set only
remove_allow_chat(c) ==
    /\ allow_chats' = allow_chats \ {c}
    /\ lastChat' = NoCall
    /\ lastMsg' = NoCall
    /\ UNCHANGED <<lastMerge, lastParse, lastContext>>
    /\ UNCHANGED <<filters, deny_chats, custom_keywords, denyDone, runVars>>

\* MessageFilter.remove_deny_chat: discards from the in-memory set only
remove_deny_chat(c) ==
    /\ deny_chats' = deny_chats \ {c}
    /\ denyDone' = denyDone \ {c}
    /\ lastChat' = NoCall
    /\ lastMsg' = NoCall
    /\ UNCHANGED <<lastMerge, lastParse, lastContext>>
    /\ UNCHANGED <<filters, allow_chats, custom_keywords, runVars>>

\* a call of is_work_chat (start_command, handle_message, _get_chats_statistics)
CallIsWorkChat(c, title) ==
    /\ lastChat' = [called |-> TRUE, chat_id |-> c, title |-> title,
                    result |-> is_work_chat(allow_chats, deny_chats,
                                            custom_keywords, c, title)]
    /\ UNCHANGED <<filterVars, lastMsg, lastMerge, lastParse, lastContext, runVars>>

\* a call of is_work_message (filter_messages)
CallIsWorkMessage(text) ==
    /\ lastMsg' = [called |-> TRUE, text |-> text,
                   work_count |-> IF text = None THEN 0
                                  ELSE work_count(custom_keywords, text),
                   personal_count |-> IF text = None THEN 0
                                      ELSE personal_count(text),
                   result |-> is_work_message(custom_keywords, text)]
    /\ UNCHANGED <<filterVars, lastChat, lastMerge, lastParse, lastContext, runVars>>

(* --------------- specification of the rule operations ----------------- *)
NextRules ==
    \/ \E c \in ChatIds, w \in BOOLEAN, r \in BOOLEAN : add_allow_chat(c, w, r)
    \/ \E c \in ChatIds, w \in BOOLEAN, r \in BOOLEAN : add_deny_chat(c, w, r)
    \/ \E kw \in KeywordInputs, w \in BOOLEAN, r \in BOOLEAN : add_keyword(kw, w, r)
    \/ \E c \in ChatIds : remove_allow_chat(c)
    \/ \E c \in ChatIds : remove_deny_chat(c)
    \/ \E c \in ChatIds, t \in Titles : CallIsWorkChat(c, t)

SpecRules == InitFresh /\ [][NextRules]_vars

(* ------------- specification of the message classifier ---------------- *)
NextMsg ==
    \/ \E kw \in KeywordInputs, w \in BOOLEAN, r \in BOOLEAN : add_keyword(kw, w, r)
    \/ \E t \in Texts \cup {None} : CallIsWorkMessage(t)

SpecMsg == InitFresh /\ [][NextMsg]_vars

(* ------------------------ the merge of the digest --------------------- *)
\* the entries of one list of a per-chat summary, told apart by chat, list and
\* position
Entries(c, kind, n) == [i \in 1 .. n |-> <<c, kind, i>>]

\* analysis_result['summary'] of a chat
Summary(c, na, nr, nc) ==
    [agreements |-> Entries(c, "agreement", na),
     risks |-> Entries(c, "risk", nr),
     recommendations |-> Entries(c, "recommendation", nc)]

\* the summaries analyze_messages may return for a chat
Summaries(c) ==
    {Summary(c, na, nr, nc) :
        na \in 0 .. MaxAgreements, nr \in 0 .. MaxRisks, nc \in 0 .. MaxRecs}

\* the orders in which the chats of a Run are processed
ChatOrders ==
    {o \in SeqsUpTo(ChatIds, Cardinality(ChatIds)) :
        \A i \in DOMAIN o, j \in DOMAIN o : i # j => o[i] # o[j]}

\* the values of all_reports for the chats of an order: one element per chat
RECURSIVE ReportListsFor(_)
ReportListsFor(o) ==
    IF o = <<>> THEN {<<>>}
    ELSE {<<[chat_id |-> Head(o), summary |-> sm]>> \o rest :
             sm \in Summaries(Head(o)), rest \in ReportListsFor(Tail(o))}

\* list.extend over a sequence of lists
RECURSIVE Extend(_)
Extend(lists) ==
    IF lists = <<>> THEN <<>> ELSE Head(lists) \o Extend(Tail(lists))

\* list[:n]
Truncate(list, n) == SubSeq(list, 1, IF Len(list) < n THEN Len(list) ELSE n)

\* all_agreements[:6], all_risks[:3], all_recommendations[:5]
AgreementsCap == 6
RisksCap == 3
RecommendationsCap == 5

\* the sections with each chat's list capped before the lists are joined
analysis_report_sections_cap_per_chat(reps) ==
    [agreements |-> Extend([k \in DOMAIN reps |->
                        Truncate(reps[k].summary.agreements, AgreementsCap)]),
     risks |-> Extend([k \in DOMAIN reps |->
                        Truncate(reps[k].summary.risks, RisksCap)]),
     recommendations |-> Extend([k \in DOMAIN reps |->
                        Truncate(reps[k].summary.recommendations,
                                 RecommendationsCap)])]

\* _send_analysis_report: the bulleted entries of the three sections of
\* report_text (a section with no entry is left out of the text)
analysis_report_sections(reps) ==
    [agreements |->
        Truncate(Extend([k \in DOMAIN reps |-> reps[k].summary.agreements]),
                 AgreementsCap),
     risks |->
        Truncate(Extend([k \in DOMAIN reps |-> reps[k].summary.risks]),
                 RisksCap),
     recommendations |->
        Truncate(Extend([k \in DOMAIN reps |-> reps[k].summary.recommendations]),
                 RecommendationsCap)]

(* ------------------------- the message store -------------------------- *)
\* chat.title of each chat: one title holds a work keyword, the other does not
ChatTitle(c) == IF c = "c1" THEN <<"A", "I">> ELSE <<"d", "o", "m">>

\* message.text of the incoming messages: a work text and a personal text
RunTexts == { <<"A", "I">>, <<"d", "o", "m">> }

\* DatabaseManager.insert_chat: INSERT OR REPLACE on the unique chat_id
insert_chat(rows, chat_id, title, is_work) ==
    {r \in rows : r.chat_id # chat_id}
        \cup {[chat_id |-> chat_id, title |-> title, is_work |-> is_work]}

\* DatabaseManager.insert_message
insert_message(rows, chat_id, text, ts) ==
    Append(rows, [chat_id |-> chat_id, text |-> text, ts |-> ts])

\* the rows of `messages m JOIN chats c ON m.chat_id = c.chat_id`
Joined(msgs, chs) ==
    {i \in DOMAIN msgs : \E r \in chs : r.chat_id = msgs[i].chat_id}

\* WHERE m.ts >= ? AND m.ts < ?
InWindow(msgs, window_start, window_end) ==
    {i \in DOMAIN msgs : msgs[i].ts >= window_start /\ msgs[i].ts < window_end}

\* the rows in the order of their ids
RECURSIVE OrderByRowid(_, _)
OrderByRowid(msgs, ids) ==
    IF ids = {} THEN <<>>
    ELSE LET first == CHOOSE i \in ids : \A j \in ids : i <= j
         IN <<first>> \o OrderByRowid(msgs, ids \ {first})

\* ORDER BY m.ts ASC (rows of one timestamp in id order)
RECURSIVE OrderByTs(_, _)
OrderByTs(msgs, ids) ==
    IF ids = {} THEN <<>>
    ELSE LET first == CHOOSE i \in ids : \A j \in ids :
                          \/ msgs[i].ts < msgs[j].ts
                          \/ (msgs[i].ts = msgs[j].ts /\ i <= j)
         IN <<first>> \o OrderByTs(msgs, ids \ {first})

\* get_new_messages with the upper end of the window included
get_new_messages_closed(msgs, chs, window_start, window_end, ok) ==
    IF ok
    THEN OrderByTs(msgs, Joined(msgs, chs) \cap InWindow(msgs, window_start, window_end + 1))
    ELSE <<>>

\* DatabaseManager.get_new_messages: the ids of the rows selected, in order, or
\* [] when the query raises
get_new_messages(msgs, chs, window_start, window_end, ok) ==
    IF ok
    THEN OrderByTs(msgs, Joined(msgs, chs) \cap InWindow(msgs, window_start, window_end))
    ELSE <<>>

\* the title column of a fetched row
TitleOf(chs, chat_id) == (CHOOSE r \in chs : r.chat_id = chat_id).title

(* --------------------------- the run pipeline ------------------------- *)
\* filter_messages that also asks for a work chat
filter_messages_work_chats_only(msgs, chs, fetched) ==
    SelectSeq(fetched, LAMBDA i :
        /\ is_work_message(custom_keywords, msgs[i].text)
        /\ is_work_chat(allow_chats, deny_chats, custom_keywords,
                        msgs[i].chat_id, TitleOf(chs, msgs[i].chat_id)))

\* MessageFilter.filter_messages
filter_messages(msgs, chs, fetched) ==
    SelectSeq(fetched, LAMBDA i : is_work_message(custom_keywords, msgs[i].text))

\* the chat ids of a list of rows, without repetition
ChatsOf(msgs, ids) == {msgs[ids[k]].chat_id : k \in DOMAIN ids}

\* the statistics counting only the chats that have a work message
get_chats_statistics_active_only(msgs, chs, fetched) ==
    LET kept == SelectSeq(fetched,
                    LAMBDA i : is_work_message(custom_keywords, msgs[i].text))
        cs == ChatsOf(msgs, kept)
        work == {c \in cs : is_work_chat(allow_chats, deny_chats, custom_keywords,
                                         c, TitleOf(chs, c))}
    IN [total_messages |-> Len(fetched),
        total_chats |-> Cardinality(cs),
        work_chats |-> Cardinality(work),
        personal_chats |-> Cardinality(cs \ work),
        chats_detail |->
            [c \in cs |->
                [messages_count |->
                     Cardinality({k \in DOMAIN fetched : msgs[fetched[k]].chat_id = c}),
                 is_work |-> c \in work]]]

\* TelegramAnalyticsBot._get_chats_statistics: one entry of chats_data per
\* distinct chat_id of the list, classified by is_work_chat on the title of the
\* first row of the chat, and counting the rows of the chat
get_chats_statistics(msgs, chs, fetched) ==
    LET cs == ChatsOf(msgs, fetched)
        work == {c \in cs : is_work_chat(allow_chats, deny_chats, custom_keywords,
                                         c, TitleOf(chs, c))}
    IN [total_messages |-> Len(fetched),
        total_chats |-> Cardinality(cs),
        work_chats |-> Cardinality(work),
        personal_chats |-> Cardinality(cs \ work),
        chats_detail |->
            [c \in cs |->
                [messages_count |->
                     Cardinality({k \in DOMAIN fetched : msgs[fetched[k]].chat_id = c}),
                 is_work |-> c \in work]]]

\* the grouping loop of run_hourly_analysis: chats_messages, a dict, keeps the
\* chats in the order of their first message
RECURSIVE GroupByChat(_, _, _)
GroupByChat(msgs, work, acc) ==
    IF work = <<>> THEN acc
    ELSE LET i == Head(work)
             c == msgs[i].chat_id
             at == {k \in DOMAIN acc : acc[k].chat_id = c}
         IN GroupByChat(msgs, Tail(work),
                IF at = {}
                THEN Append(acc, [chat_id |-> c, msgs |-> <<i>>])
                ELSE [k \in DOMAIN acc |->
                        IF k \in at THEN [acc[k] EXCEPT !.msgs = Append(@, i)]
                        ELSE acc[k]])

\* the analysis loop calling analyze_messages a second time for each group
AnalysisCalls_twice(groups) ==
    [k \in 1..(2 * Len(groups)) |-> groups[(k + 1) \div 2].chat_id]

\* the analysis loop calls analyze_messages once for every group, in group
\* order: the chats of the calls
AnalysisCalls(groups) == [k \in DOMAIN groups |-> groups[k].chat_id]

\* TelegramAnalyticsBot._archive_results: returns at once without an
\* ArchiveManager, otherwise logs the run id (it has no await); what its try
\* block raises is logged by its except
archive_results(done, run_id, archiveOK) ==
    IF archive_manager /\ archiveOK THEN done \cup {run_id} ELSE done

\* what became of the archive step of a Run: it is reached in the digest
\* branch only, after the send of the digest
archive_step(report, archiveOK) ==
    IF report # "digest" THEN "none"
    ELSE IF ~archive_manager THEN "off"
    ELSE IF archiveOK THEN "ok" ELSE "failed"

\* the analysis loop giving up at the first chat whose call fails
AllReports_stop_at_failure(groups, okChats) ==
    LET bad == {k \in DOMAIN groups : groups[k].chat_id \notin okChats}
        upto == IF bad = {} THEN Len(groups)
                ELSE (CHOOSE k \in bad : \A j \in bad : k <= j) - 1
    IN [k \in 1 .. upto |-> groups[k].chat_id]

\* the analysis loop reporting after the first call only
AllReports_first_only(groups, okChats) ==
    IF groups # <<>> /\ groups[1].chat_id \in okChats
    THEN <<groups[1].chat_id>> ELSE <<>>

\* the analysis loop: all_reports holds the chats whose analyze_messages call
\* returned a result (okChats), in group order
AllReports(groups, okChats) ==
    LET ok == SelectSeq(groups, LAMBDA g : g.chat_id \in okChats)
    IN [k \in DOMAIN ok |-> ok[k].chat_id]

\* the rows insert_report adds for a run: one per summarized chat
ReportRows(run_id, all_reports) ==
    [k \in DOMAIN all_reports |-> [run_id |-> run_id, chat_id |-> all_reports[k]]]

\* the report with a statistics report for an empty fetch
report_shape_stats_when_empty(fetched, work, all_reports) ==
    IF fetched = <<>> THEN "stats"
    ELSE IF work = <<>> THEN "stats"
    ELSE IF all_reports # <<>> THEN "digest"
    ELSE "stats"

\* the report with the digest branch taken without work messages
report_shape_digest_without_work(fetched, work, all_reports) ==
    IF fetched = <<>> THEN "none"
    ELSE IF work = <<>> THEN "digest"
    ELSE IF all_reports # <<>> THEN "digest"
    ELSE "stats"

\* the report with nothing sent when every call failed
report_shape_none_when_all_failed(fetched, work, all_reports) ==
    IF fetched = <<>> THEN "none"
    ELSE IF work = <<>> THEN "stats"
    ELSE IF all_reports # <<>> THEN "digest"
    ELSE "none"

\* the branches of run_hourly_analysis: which report the Run hands to the
\* transport ("none": it returns after the fetch)
report_shape(fetched, work, all_reports) ==
    IF fetched = <<>> THEN "none"
    ELSE IF work = <<>> THEN "stats"
    ELSE IF all_reports # <<>> THEN "digest"
    ELSE "stats"

\* the summary analyze_messages returns for a chat when its call succeeds
ChatSummaryOf(c) ==
    IF c = "c1" THEN Summary(c, 2, 1, 1) ELSE Summary(c, 1, 1, 2)

\* the reports argument of _send_analysis_report: all_reports with the
\* analysis of each chat
ReportsOf(all_reports) ==
    [k \in DOMAIN all_reports |->
        [chat_id |-> all_reports[k], summary |-> ChatSummaryOf(all_reports[k])]]

\* timedelta(hours=1), in ticks
HourTicks == 2

\* the count of the header being the number of summaries
active_chats_count_of_summaries(groups, all_reports) == Len(all_reports)

\* active_chats_count of _send_analysis_report(all_reports, len(chats_messages),
\* all_chats_stats), also the count given to _send_statistics_report
active_chats_count(groups, all_reports) == Len(groups)

\* the value run_hourly_analysis returns when a send failed
return_after_send_false_on_send_failure(sendOK, archive) ==
    IF sendOK THEN "True" ELSE "False"

\* the value run_hourly_analysis returns when the archive step failed
return_after_send_false_on_archive_failure(sendOK, archive) ==
    IF archive = "failed" THEN "False" ELSE "True"

\* the value run_hourly_analysis returns after the send and the archive step:
\* _send_analysis_report, _send_statistics_report and _archive_results log what
\* they catch, and return True follows
return_after_send(sendOK, archive) == "True"

\* a Run without a runs row going on to its fetch
after_create_run_going_on(createOK, fetched) == fetched

\* "if not run_id: return False": nothing is fetched, analysed or sent by a
\* Run whose runs row could not be created
after_create_run(createOK, fetched) == IF createOK THEN fetched ELSE <<>>

\* a failed create_run raising out of run_hourly_analysis
run_result_raising(createOK, awaiting) ==
    IF ~createOK THEN "raised"
    ELSE IF awaiting THEN "no" ELSE "True"

\* what run_hourly_analysis has returned by its first await: False when
\* create_run gave no id, True when there is nothing to send to
run_result(createOK, awaiting) ==
    IF ~createOK THEN "False"
    ELSE IF awaiting THEN "no" ELSE "True"

\* the rows of insert_report that were written: a failing INSERT is logged and
\* returns False, which the loop does not read
WrittenReports(all_reports, writeChats) ==
    SelectSeq(all_reports, LAMBDA c : c \in writeChats)

\* TelegramAnalyticsBot.run_hourly_analysis up to its first await (the send of
\* the report) or, when nothing is sent, up to its return.  analyze_messages is a
\* blocking call, so the loop over the chats is one step of the event loop.
\* late is the time between the fire time of the trigger and the start of the
\* Run.  Each local of the function is bound once, in the order of the code.
RunStart(p, late, createOK, fetchOK, okChats, writeChats, archiveOK) ==
    \E fetched \in {after_create_run(createOK,
                        get_new_messages(messages, chats, now - HourTicks, now,
                                         fetchOK))} :
    \E work \in {filter_messages(messages, chats, fetched)} :
    \E groups \in {GroupByChat(messages, work, <<>>)} :
    \E all_reports \in {AllReports(groups, okChats)} :
    \E report \in {report_shape(fetched, work, all_reports)} :
    \E calls \in {AnalysisCalls(groups)} :
    LET window_start == now - HourTicks
        window_end == now
        run_id == IF createOK THEN Len(runs) + 1 ELSE 0
        stats == get_chats_statistics(messages, chats, fetched)
        written == WrittenReports(all_reports, writeChats)
        awaiting == report # "none" /\ target_user_id
    IN  /\ createOK => Len(runs) < MaxRuns
        /\ runs' = IF createOK
                   THEN Append(runs, [ran_at |-> now, window_start |-> window_start,
                                      window_end |-> window_end])
                   ELSE runs
        /\ reports' = reports \o ReportRows(run_id, written)
        /\ last' = [started |-> TRUE, run_id |-> run_id,
                    scheduled |-> now - late,
                    window_start |-> window_start, window_end |-> window_end,
                    fetch_ok |-> createOK /\ fetchOK,
                    joined |-> Joined(messages, chats),
                    fetched |-> fetched, stats |-> stats, work |-> work,
                    groups |-> groups, calls |-> calls,
                    failed |-> SetOf(calls) \ okChats,
                    all_reports |-> all_reports,
                    written |-> SetOf(written),
                    send |-> IF awaiting THEN "pending" ELSE "none",
                    report |-> report,
                    archive |-> IF awaiting THEN "none"
                                ELSE archive_step(report, archiveOK),
                    returned |-> run_result(createOK, awaiting),
                    prev_end |-> IF last.started /\ last.fetch_ok
                                 THEN <<last.window_end>> ELSE <<>>]
        /\ run' = [run EXCEPT ![p] =
                      IF awaiting
                      THEN [started |-> TRUE, run_id |-> run_id, report |-> report,
                            calls |-> calls, all_reports |-> all_reports,
                            active_chats_count |->
                                active_chats_count(groups, all_reports)]
                      ELSE NoRun]
        /\ pc' = [pc EXCEPT ![p] = IF awaiting THEN "send" ELSE "idle"]
        /\ archived' = IF ~awaiting /\ report = "digest"
                       THEN archive_results(archived, run_id, archiveOK)
                       ELSE archived
        /\ UNCHANGED <<now, target_user_id, chats, messages, sent, archive_manager>>

\* the await of bot.send_message in _send_analysis_report / _send_statistics_report
\* returns or raises (the exception is logged); then, for a digest, the archive
\* step; run_hourly_analysis returns True
SendDone(p, sendOK, archiveOK) ==
    /\ pc[p] = "send"
    /\ sent' = IF sendOK
               THEN Append(sent, [run_id |-> run[p].run_id, kind |-> run[p].report,
                                  active_chats_count |-> run[p].active_chats_count,
                                  chats |-> IF run[p].report = "digest"
                                            THEN run[p].all_reports ELSE <<>>,
                                  sections |->
                                      IF run[p].report = "digest"
                                      THEN analysis_report_sections(
                                               ReportsOf(run[p].all_reports))
                                      ELSE analysis_report_sections(<<>>)])
               ELSE sent
    /\ archived' = IF run[p].report = "digest"
                   THEN archive_results(archived, run[p].run_id, archiveOK)
                   ELSE archived
    /\ last' = IF last.run_id = run[p].run_id
               THEN [last EXCEPT
                        !.returned = return_after_send(
                                         sendOK, archive_step(run[p].report, archiveOK)),
                        !.send = IF sendOK THEN "ok" ELSE "failed",
                        !.archive = archive_step(run[p].report, archiveOK)]
               ELSE last
    /\ run' = [run EXCEPT ![p] = NoRun]
    /\ pc' = [pc EXCEPT ![p] = "idle"]
    /\ UNCHANGED <<now, target_user_id, chats, messages, runs, reports,
                   archive_manager>>
    /\ UNCHANGED <<filterVars, callVars>>

\* misfire_grace_time=300: how late, at most, the scheduler still starts a job
\* whose fire time has passed (one tick of the clock, less than the hour)
GraceTicks == 1

\* AnalyticsScheduler._run_analysis, the job of start_hourly_analysis, calling
\* run_hourly_analysis: with max_instances=1 the scheduler starts no instance
\* of the job while one is running; the job starts late ticks after its fire
\* time, within the grace time
PeriodicRun(late, createOK, fetchOK, okChats, writeChats, archiveOK) ==
    /\ pc["periodic"] = "idle"
    /\ late <= now
    /\ RunStart("periodic", late, createOK, fetchOK, okChats, writeChats,
                archiveOK)
    /\ UNCHANGED <<filterVars, callVars>>

\* analyze_command calling run_hourly_analysis: the Application handles one
\* update at a time, so no second /analyze starts before the handler of the
\* first has returned.  The handler's own reply_text awaits come before and
\* after the Run and touch no state.  A command is handled when it arrives.
AnalyzeCommand(createOK, fetchOK, okChats, writeChats, archiveOK) ==
    /\ pc["manual"] = "idle"
    /\ RunStart("manual", 0, createOK, fetchOK, okChats, writeChats, archiveOK)
    /\ UNCHANGED <<filterVars, callVars>>

\* the outcomes of the steps of one Run that can differ.  The fetch is reached
\* only with a runs row; analyze_messages is called only for chats with a
\* stored work message, and only after a fetch that succeeded; insert_report
\* is called only for the chats whose call returned a result; the archive
\* step can fail only with an ArchiveManager, and a Run with a target reaches
\* it after the await of its send
FetchOutcomes(createOK) == IF createOK THEN BOOLEAN ELSE {TRUE}
CalledChats(fetchOK) ==
    IF fetchOK
    THEN {messages[i].chat_id :
             i \in {j \in DOMAIN messages :
                       is_work_message(custom_keywords, messages[j].text)}}
    ELSE {}
ArchiveOutcomes == IF archive_manager THEN BOOLEAN ELSE {TRUE}
StartArchiveOutcomes == IF target_user_id THEN {TRUE} ELSE ArchiveOutcomes

\* TelegramAnalyticsBot.handle_message: the chat row, then the message row with
\* ts = message.date, read on the clock of the runs; either insert may fail
\* (logged, False).  chats.last_seen_message_id, which it updates last, is read
\* nowhere and is left out.
handle_message(c, text, chatOK, msgOK) ==
    /\ msgOK => Len(messages) < MaxMsgs
    /\ chats' = IF chatOK
                THEN insert_chat(chats, c, ChatTitle(c),
                         is_work_chat(allow_chats, deny_chats, custom_keywords,
                                      c, ChatTitle(c)))
                ELSE chats
    /\ messages' = IF msgOK THEN insert_message(messages, c, text, now) ELSE messages
    /\ UNCHANGED <<now, target_user_id, runs, reports, pc, run, last, sent,
                   archive_manager, archived>>
    /\ UNCHANGED <<filterVars, callVars>>

\* time passes
Tick ==
    /\ now < MaxTime
    /\ now' = now + 1
    /\ UNCHANGED <<target_user_id, chats, messages, runs, reports, pc, run,
                   last, sent, archive_manager, archived>>
    /\ UNCHANGED <<filterVars, callVars>>

\* a bot started on an empty store with a target and without an ArchiveManager
Init == InitFilter /\ InitCalls /\ InitRun /\ target_user_id /\ ~archive_manager

Next ==
    \/ Tick
    \/ \E c \in ChatIds, t \in RunTexts, chatOK \in BOOLEAN, msgOK \in BOOLEAN :
           handle_message(c, t, chatOK, msgOK)
    \/ \E createOK \in BOOLEAN : \E fetchOK \in FetchOutcomes(createOK) :
           \E okChats \in SUBSET CalledChats(createOK /\ fetchOK) :
               \E writeChats \in SUBSET okChats, archiveOK \in StartArchiveOutcomes :
                   AnalyzeCommand(createOK, fetchOK, okChats, writeChats, archiveOK)
    \/ \E late \in 0..GraceTicks, createOK \in BOOLEAN :
           \E fetchOK \in FetchOutcomes(createOK) :
               \E okChats \in SUBSET CalledChats(createOK /\ fetchOK) :
                   \E writeChats \in SUBSET okChats, archiveOK \in StartArchiveOutcomes :
                       PeriodicRun(late, createOK, fetchOK, okChats, writeChats,
                                   archiveOK)
    \/ \E p \in Triggers, sendOK \in BOOLEAN, archiveOK \in ArchiveOutcomes :
           SendDone(p, sendOK, archiveOK)

Spec == Init /\ [][Next]_vars

(* ------------- specification of one Run over a stored batch ----------- *)
\* the rules a started bot may have loaded from its store
RuleSetups ==
    { <<>>,
      << [kind |-> "allow_chat", value |-> "c1"],
         [kind |-> "deny_chat", value |-> "c2"] >> }

\* message.date of the messages of a batch: the ticks of the last hour
BatchTimes == 0 .. (HourTicks - 1)

\* the messages table after handle_message has stored a batch; rows arrive in
\* any order of their dates
BatchRows(batch) ==
    [i \in DOMAIN batch |->
        [chat_id |-> batch[i][1], text |-> batch[i][2], ts |-> batch[i][3]]]

\* the chats table after handle_message has stored a batch under the rules
BatchChats(batch, rules) ==
    {[chat_id |-> batch[i][1], title |-> ChatTitle(batch[i][1]),
      is_work |-> is_work_chat(rules.allow, rules.deny, rules.custom,
                               batch[i][1], ChatTitle(batch[i][1]))] :
        i \in DOMAIN batch}

\* a bot restarted on a store that holds rules and a batch of messages of the
\* last hour, before any Run
InitBatch ==
    /\ filters \in RuleSetups
    /\ allow_chats = load_filters(filters).allow
    /\ deny_chats = load_filters(filters).deny
    /\ custom_keywords = load_filters(filters).custom
    /\ denyDone = {}
    /\ InitCalls
    /\ now = HourTicks
    /\ target_user_id \in BOOLEAN
    /\ \E batch \in SeqsUpTo(ChatIds \X RunTexts \X BatchTimes, MaxBatch) :
           /\ messages = BatchRows(batch)
           /\ chats = BatchChats(batch, load_filters(filters))
    /\ runs = <<>>
    /\ reports = <<>>
    /\ pc = [p \in Triggers |-> "idle"]
    /\ run = [p \in Triggers |-> NoRun]
    /\ last = NoRun
    /\ sent = <<>>
    /\ archive_manager \in BOOLEAN
    /\ archived = {}

\* the bot as main() wires it, /analyze being the only trigger, up to the end
\* of the first Run that creates its runs row
NextBatch ==
    \/ \E createOK \in BOOLEAN : \E fetchOK \in FetchOutcomes(createOK) :
           \E okChats \in SUBSET CalledChats(createOK /\ fetchOK) :
               \E writeChats \in SUBSET okChats, archiveOK \in StartArchiveOutcomes :
                   /\ runs = <<>>
                   /\ AnalyzeCommand(createOK, fetchOK, okChats, writeChats, archiveOK)
    \/ \E sendOK \in BOOLEAN, archiveOK \in ArchiveOutcomes :
           SendDone("manual", sendOK, archiveOK)

SpecBatch == InitBatch /\ [][NextBatch]_vars

(* ---------------- specification of the merge of a digest ------------- *)
\* the merge applied to the reports drawn
MergeReports ==
    /\ ~lastMerge.called
    /\ lastMerge' = [called |-> TRUE, reports |-> lastMerge.reports,
                     sections |-> analysis_report_sections(lastMerge.reports)]
    /\ UNCHANGED <<filterVars, lastChat, lastMsg, lastParse, lastContext, runVars>>

\* any list of per-chat reports, before the merge
InitMerge ==
    /\ InitFilter
    /\ InitRun
    /\ target_user_id
    /\ ~archive_manager
    /\ lastChat = NoCall
    /\ lastMsg = NoCall
    /\ lastParse = NoCall
    /\ lastContext = NoCall
    /\ \E o \in ChatOrders :
           lastMerge \in {[called |-> FALSE, reports |-> r] : r \in ReportListsFor(o)}

NextMerge == MergeReports

SpecMerge == InitMerge /\ [][NextMerge]_vars

(* ------------------------ the provider response ----------------------- *)
\* A response is a sequence of symbols: "nl" (line feed), "sp" (space), the
\* markers "-" and "o" (the round bullet), words, and the three section labels
\* with their colon, each one symbol, in upper or lower case.
Labels == {"AGREEMENTS:", "RISKS:", "RECOMMENDATIONS:"}

\* str.upper, per symbol
UpperSym(ch) ==
    IF ch = "agreements:" THEN "AGREEMENTS:"
    ELSE IF ch = "risks:" THEN "RISKS:"
    ELSE IF ch = "recommendations:" THEN "RECOMMENDATIONS:"
    ELSE ch

\* label in block.upper()
HasLabel(block, label) == \E k \in DOMAIN block : UpperSym(block[k]) = label

\* str.strip
RECURSIVE Strip(_)
Strip(str) ==
    IF str = <<>> THEN <<>>
    ELSE IF Head(str) \in {"sp", "nl"} THEN Strip(Tail(str))
    ELSE IF str[Len(str)] \in {"sp", "nl"} THEN Strip(SubSeq(str, 1, Len(str) - 1))
    ELSE str

\* response.split('\n\n'): cur is the piece being read
RECURSIVE SplitBlocks(_, _)
SplitBlocks(str, cur) ==
    IF str = <<>> THEN <<cur>>
    ELSE IF Len(str) >= 2 /\ str[1] = "nl" /\ str[2] = "nl"
         THEN <<cur>> \o SplitBlocks(SubSeq(str, 3, Len(str)), <<>>)
         ELSE SplitBlocks(Tail(str), Append(cur, Head(str)))

\* block.split('\n')
RECURSIVE SplitLines(_, _)
SplitLines(str, cur) ==
    IF str = <<>> THEN <<cur>>
    ELSE IF Head(str) = "nl"
         THEN <<cur>> \o SplitLines(Tail(str), <<>>)
         ELSE SplitLines(Tail(str), Append(cur, Head(str)))

\* the loop over block.split('\n')[1:]: line[1:].strip() of every stripped
\* line that starts with a marker
RECURSIVE BulletsOf(_)
BulletsOf(lines) ==
    IF lines = <<>> THEN <<>>
    ELSE LET line == Strip(Head(lines))
         IN (IF line # <<>> /\ Head(line) \in {"-", "o"}
             THEN <<Strip(Tail(line))>> ELSE <<>>) \o BulletsOf(Tail(lines))

\* the loop over the blocks: an empty block is skipped, the first label found
\* anywhere in the block decides the list its bullets go to
RECURSIVE ParseBlocks(_, _)
ParseBlocks(blocks, result) ==
    IF blocks = <<>> THEN result
    ELSE LET block == Strip(Head(blocks))
             found == BulletsOf(Tail(SplitLines(block, <<>>)))
         IN ParseBlocks(Tail(blocks),
                IF block = <<>> THEN result
                ELSE IF HasLabel(block, "AGREEMENTS:")
                     THEN [result EXCEPT !.agreements = @ \o found]
                ELSE IF HasLabel(block, "RISKS:")
                     THEN [result EXCEPT !.risks = @ \o found]
                ELSE IF HasLabel(block, "RECOMMENDATIONS:")
                     THEN [result EXCEPT !.recommendations = @ \o found]
                ELSE result)

\* the result before the first block
EmptyResult == [agreements |-> <<>>, risks |-> <<>>, recommendations |-> <<>>]

\* MessageSummarizer._parse_gpt_response; a response that is not a string
\* (None) raises at the split and the except branch stores it whole
parse_gpt_response(response) ==
    IF response = None
    THEN [EmptyResult EXCEPT !.recommendations = <<response>>]
    ELSE ParseBlocks(SplitBlocks(response, <<>>), EmptyResult)

\* a bulleted line: marker, padding, content, trailing space
BulletLine(b) ==
    <<b.marker>> \o (IF b.padded THEN <<"sp", "sp">> ELSE <<"sp">>) \o b.content
        \o (IF b.padded THEN <<"sp">> ELSE <<>>)

\* the bulleted lines a provider writes
Bullets ==
    { [marker |-> "-", padded |-> FALSE, content |-> <<"x">>],
      [marker |-> "o", padded |-> TRUE, content |-> <<"x", "sp", "y">>],
      [marker |-> "-", padded |-> FALSE, content |-> <<"agreements:", "sp", "x">>],
      [marker |-> "o", padded |-> TRUE, content |-> <<"y", "sp", "risks:">>] }

\* lines joined by line feeds
RECURSIVE JoinLines(_)
JoinLines(lines) ==
    IF lines = <<>> THEN <<>>
    ELSE IF Len(lines) = 1 THEN Head(lines)
    ELSE Head(lines) \o <<"nl">> \o JoinLines(Tail(lines))

\* a section: its label on a line, then its bulleted lines
SectionText(label, bullets) ==
    JoinLines(<<<<label>>>> \o [k \in DOMAIN bullets |-> BulletLine(bullets[k])])

\* a response in the format the prompt asks for: the three sections, a blank
\* line between them
ResponseText(sec) ==
    SectionText("AGREEMENTS:", sec.agreements) \o <<"nl", "nl">>
        \o SectionText("RISKS:", sec.risks) \o <<"nl", "nl">>
        \o SectionText("RECOMMENDATIONS:", sec.recommendations)

\* the contents of the three sections of the well-formed responses
SectionInputs ==
    [agreements : SeqsUpTo(Bullets, MaxBullets),
     risks : SeqsUpTo(Bullets, MaxBullets),
     recommendations : SeqsUpTo(Bullets, MaxBullets)]

\* responses without any section label, and no response at all
Unlabelled ==
    { <<>>, <<"x">>, <<"-", "sp", "x">>, <<"x", "nl", "nl", "y">>,
      <<"x", "nl", "-", "sp", "y">>, None }

\* message.content of the provider, before it is parsed
InitParse ==
    /\ InitFilter
    /\ InitRun
    /\ target_user_id
    /\ ~archive_manager
    /\ lastChat = NoCall
    /\ lastMsg = NoCall
    /\ lastMerge = NoCall
    /\ lastContext = NoCall
    /\ lastParse \in
           {[called |-> FALSE, wellformed |-> TRUE, sections |-> sec,
             response |-> ResponseText(sec)] : sec \in SectionInputs}
           \cup {[called |-> FALSE, wellformed |-> FALSE, sections |-> EmptyResult,
                  response |-> r] : r \in Unlabelled}

\* analyze_messages parsing the response it received
ParseResponse ==
    /\ ~lastParse.called
    /\ lastParse' = [lastParse EXCEPT !.called = TRUE] @@
                        [result |-> parse_gpt_response(lastParse.response)]
    /\ UNCHANGED <<filterVars, lastChat, lastMsg, lastMerge, lastContext, runVars>>

NextParse == ParseResponse

SpecParse == InitParse /\ [][NextParse]_vars

(* ------------------- the context given to the provider ---------------- *)
\* the largest max_tokens drawn, and the longest list of messages drawn
MaxTokens == 8
MaxContextMsgs == 2

\* len(context) > self.max_tokens * 4: four characters to the token
CharsPerToken == 4

\* the text returned for an empty list (its 25 characters, in Latin letters)
NoMessagesText ==
    <<"N", "e", "t", " ", "s", "o", "o", "b", "w", "e", "n", "i", "j", " ",
      "d", "l", "y", " ", "a", "n", "a", "l", "i", "z", "a">>

\* the marker appended to a context that was cut: a line feed, three dots, a
\* space and the bracketed two-word note (its 23 characters, in Latin letters)
TruncationMarker ==
    <<"nl", ".", ".", ".", " ", "[", "k", "o", "n", "t", "e", "k", "s", "t", " ",
      "o", "b", "r", "e", "z", "a", "n", "]">>

\* f"[{timestamp}] {sender}: {text}"
formatted_msg(msg) ==
    <<"[">> \o msg.ts \o <<"]", " ">> \o msg.sender \o <<":", " ">> \o msg.text

\* the header line of a chat: the three-letter word for chat, a colon, a space
\* and chat_data['title']
chat_header(title) == <<"C", "H", "T", ":", " ">> \o title

\* the keys of chats_context, a dict: the chat ids in the order of their first
\* message
RECURSIVE ContextChats(_, _)
ContextChats(msgs, acc) ==
    IF msgs = <<>> THEN acc
    ELSE ContextChats(Tail(msgs),
             IF Head(msgs).chat_id \in SetOf(acc) THEN acc
             ELSE Append(acc, Head(msgs).chat_id))

\* the lines of one chat: its header with the title of its first message, its
\* messages in the order of the list, and an empty line
chat_parts(msgs, c) ==
    LET own == SelectSeq(msgs, LAMBDA m : m.chat_id = c)
    IN  <<chat_header(Head(own).title)>>
            \o [k \in DOMAIN own |-> formatted_msg(own[k])]
            \o << <<>> >>

\* context_parts of _prepare_context
context_parts(msgs) ==
    LET order == ContextChats(msgs, <<>>)
    IN  Flatten([k \in DOMAIN order |-> chat_parts(msgs, order[k])])

\* "\n".join(context_parts), the context before it is cut
full_context(msgs) == JoinLines(context_parts(msgs))

\* the cut keeping the end of the context instead of its beginning
prepare_context_keep_tail(msgs, max_tokens) ==
    IF msgs = <<>> THEN NoMessagesText
    ELSE LET context == full_context(msgs)
             budget == max_tokens * CharsPerToken
         IN  IF Len(context) > budget
             THEN SubSeq(context, Len(context) - budget + 1, Len(context))
                      \o TruncationMarker
             ELSE context

\* MessageSummarizer._prepare_context
prepare_context(msgs, max_tokens) ==
    IF msgs = <<>> THEN NoMessagesText
    ELSE LET context == full_context(msgs)
             budget == max_tokens * CharsPerToken
         IN  IF Len(context) > budget
             THEN SubSeq(context, 1, budget) \o TruncationMarker
             ELSE context

\* the messages of the lists given to _prepare_context: rows of two chats, with
\* a short and a longer text
ContextMessages ==
    {[chat_id |-> c,
      title |-> IF c = "c1" THEN <<"T">> ELSE <<"W", "K">>,
      sender |-> <<"u">>, ts |-> <<"1">>, text |-> t] :
         c \in ChatIds, t \in {<<"a">>, <<"b", "c", "d">>}}

\* any list of messages and any max_tokens, before the call
InitContext ==
    /\ InitFilter
    /\ InitRun
    /\ target_user_id
    /\ ~archive_manager
    /\ lastChat = NoCall
    /\ lastMsg = NoCall
    /\ lastMerge = NoCall
    /\ lastParse = NoCall
    /\ lastContext \in
           {[called |-> FALSE, messages |-> m, max_tokens |-> t] :
                m \in SeqsUpTo(ContextMessages, MaxContextMsgs), t \in 1..MaxTokens}

\* analyze_messages preparing the context of its prompt
PrepareContext ==
    /\ ~lastContext.called
    /\ lastContext' = [lastContext EXCEPT !.called = TRUE] @@
                          [result |-> prepare_context(lastContext.messages,
                                                      lastContext.max_tokens)]
    /\ UNCHANGED <<filterVars, lastChat, lastMsg, lastMerge, lastParse, runVars>>

NextContext == PrepareContext

SpecContext == InitContext /\ [][NextContext]_vars

(* ------------------------ claims on the classifier -------------------- *)
\* C2: a chat whose id is in the allow-list is classified as work by
\* is_work_chat, also when the id is in the deny-list and whatever the title.
C2_AllowListedIsWork ==
    (lastChat.called /\ lastChat.chat_id \in allow_chats) => lastChat.result

\* a call for a chat in both lists, with a title that holds no keyword
C2_Witness ==
    /\ lastChat.called
    /\ lastChat.chat_id \in allow_chats
    /\ lastChat.chat_id \in deny_chats
    /\ ~check_work_keywords(custom_keywords, lastChat.title)
    /\ lastChat.result

\* C3: is_work_chat returns the result of the four-step first-match resolution
\* (allow-listed -> true; deny-listed -> false; allow-list empty -> keyword
\* scan of the title; otherwise false).
C3_FourStepResolution ==
    lastChat.called =>
        LET c == lastChat.chat_id
            r == lastChat.result
            scan == \E kw \in SetOf(WORK_KEYWORDS) \cup custom_keywords :
                        IsSubstring(Lower(kw), Lower(lastChat.title))
        IN  /\ c \in allow_chats => r
            /\ (c \notin allow_chats /\ c \in deny_chats) => ~r
            /\ (c \notin allow_chats /\ c \notin deny_chats /\ allow_chats = {})
                   => (r <=> scan)
            /\ (c \notin allow_chats /\ c \notin deny_chats /\ allow_chats # {})
                   => ~r

\* a call for a chat missing from a non-empty allow-list and from the deny-list,
\* whose title holds a keyword: not work
C3_Witness ==
    /\ lastChat.called
    /\ allow_chats # {}
    /\ lastChat.chat_id \notin allow_chats
    /\ lastChat.chat_id \notin deny_chats
    /\ check_work_keywords(custom_keywords, lastChat.title)
    /\ ~lastChat.result

\* the keywords of a set that occur in the text, compared case-insensitively
Matched(kws, text) == {kw \in kws : IsSubstring(Lower(kw), Lower(text))}

\* C4: is_work_message is true iff strictly more work keywords (built-in plus
\* custom) than personal keywords are matched; a tie, zero against zero
\* included, yields false, and so does an empty or null text.
C4_StrictMajority ==
    lastMsg.called =>
        LET t == lastMsg.text
            nWork == Cardinality(Matched(SetOf(WORK_KEYWORDS) \cup custom_keywords, t))
            nPersonal == Cardinality({i \in DOMAIN PERSONAL_KEYWORDS :
                             IsSubstring(Lower(PERSONAL_KEYWORDS[i]), Lower(t))})
        IN  lastMsg.result <=> (t # None /\ t # <<>> /\ nWork > nPersonal)

\* a call on a text that matches one work and one personal keyword: not work
C4_Witness ==
    /\ lastMsg.called
    /\ lastMsg.work_count = 1
    /\ lastMsg.personal_count = 1
    /\ ~lastMsg.result

\* C5: the work keywords are a set under case-insensitive matching: a keyword
\* contributes exactly 1 to the work count, also when it is in the built-in
\* list and in the custom keywords ('kpi' added next to the built-in 'KPI').
C5_KeywordCountedOnce ==
    (lastMsg.called /\ lastMsg.text # None) =>
        lastMsg.work_count =
            Cardinality({Lower(kw) :
                kw \in Matched(SetOf(WORK_KEYWORDS) \cup custom_keywords, lastMsg.text)})

\* C6: after any sequence of completed MessageFilter operations the in-memory
\* allow, deny and custom-keyword sets equal the rules persisted in the store.
C6_MemoryEqualsStore ==
    /\ allow_chats =
           {filters[i].value : i \in {j \in DOMAIN filters : filters[j].kind = "allow_chat"}}
    /\ deny_chats =
           {filters[i].value : i \in {j \in DOMAIN filters : filters[j].kind = "deny_chat"}}
    /\ custom_keywords =
           {filters[i].value : i \in {j \in DOMAIN filters : filters[j].kind = "keyword"}}

\* C7: once add_deny_chat(c) has completed successfully, every later
\* is_work_chat call evaluates against a rule set that holds the deny entry
\* for c (remove_deny_chat(c) ends the obligation).
C7_DenyEntryVisible ==
    (lastChat.called /\ lastChat.chat_id \in denyDone)
        => lastChat.chat_id \in deny_chats

\* C8: the store holds at most one rule for each (kind, value) pair.
C8_OneRowPerRule ==
    \A i, j \in DOMAIN filters : filters[i] = filters[j] => i = j

(* --------------------------- claims on the runs ----------------------- *)
\* the triggers whose run_hourly_analysis has started and has not returned
InFlight == {p \in Triggers : pc[p] = "send"}

\* C1: at most one Run is in flight at any time: a trigger that arrives while
\* run_hourly_analysis is still executing does not start a second Run in
\* parallel, whatever the interleaving of periodic and manual triggers.
C1_SingleFlight == Cardinality(InFlight) <= 1

\* C9: window boundaries are half-open across consecutive Runs: a stored
\* message whose timestamp equals the window end of a Run is not fetched by
\* that Run, and a stored message whose timestamp equals the window end of the
\* Run before is fetched by this Run, started later (both Runs having read the
\* store).
C9_HalfOpenAcrossRuns ==
    (last.started /\ last.fetch_ok) =>
        /\ \A i \in last.joined :
               messages[i].ts = last.window_end => i \notin SetOf(last.fetched)
        /\ (last.prev_end # <<>> /\ last.window_end > last.prev_end[1]) =>
               \A i \in last.joined :
                   messages[i].ts = last.prev_end[1] => i \in SetOf(last.fetched)

\* message row i is in the group of its chat handed to analyze_messages
InGroup(i) ==
    \E k \in DOMAIN last.groups :
        /\ last.groups[k].chat_id = messages[i].chat_id
        /\ i \in SetOf(last.groups[k].msgs)

\* C10: a fetched message is placed in the group of its chat (and so passed to
\* analyze_messages) iff is_work_message of its text is true, whatever
\* is_work_chat says of its chat.
C10_GroupedIffWorkMessage ==
    last.started =>
        \A i \in SetOf(last.fetched) :
            InGroup(i) <=> is_work_message(custom_keywords, messages[i].text)

\* a Run that groups a work message of a deny-listed chat and leaves out a
\* non-work message of an allow-listed chat
C10_Witness ==
    /\ last.started
    /\ \E i \in SetOf(last.fetched) :
           /\ messages[i].chat_id \in deny_chats
           /\ messages[i].chat_id \notin allow_chats
           /\ ~is_work_chat(allow_chats, deny_chats, custom_keywords,
                            messages[i].chat_id, TitleOf(chats, messages[i].chat_id))
           /\ is_work_message(custom_keywords, messages[i].text)
           /\ InGroup(i)
    /\ \E j \in SetOf(last.fetched) :
           /\ messages[j].chat_id \in allow_chats
           /\ is_work_chat(allow_chats, deny_chats, custom_keywords,
                           messages[j].chat_id, TitleOf(chats, messages[j].chat_id))
           /\ ~is_work_message(custom_keywords, messages[j].text)
           /\ ~InGroup(j)

(* ----------------------- claims on the outcome of a Run ---------------- *)
\* the Run started last has created its runs row and has returned
Completed == last.started /\ last.run_id # 0 /\ last.returned # "no"

\* the reports delivered for the Run started last
SentOfLast == {k \in DOMAIN sent : sent[k].run_id = last.run_id}

\* the statistics of an empty fetch
ZeroStats ==
    [total_messages |-> 0, total_chats |-> 0, work_chats |-> 0, personal_chats |-> 0,
     chats_detail |-> <<>>]

\* C11 (as stated): when the fetched set of a Run is empty, the Run completes
\* successfully with an all-zero statistics report and makes no summarization
\* call.
C11_EmptyFetchZeroReport ==
    (Completed /\ last.fetched = <<>>) =>
        /\ last.returned = "True"
        /\ last.report = "stats"
        /\ last.stats = ZeroStats
        /\ last.calls = <<>>

\* C11 (amended): when the fetched set of a Run is empty, the Run completes
\* successfully, produces and sends no report at all, and makes no
\* summarization call.
C11_EmptyFetchNoReport ==
    (Completed /\ last.fetched = <<>>) =>
        /\ last.returned = "True"
        /\ last.report = "none"
        /\ last.send = "none"
        /\ SentOfLast = {}
        /\ last.calls = <<>>

\* a Run with a target configured whose fetch succeeded and found no row
C11_Witness ==
    /\ Completed
    /\ target_user_id
    /\ last.fetch_ok
    /\ last.fetched = <<>>
    /\ last.returned = "True"

\* C12: when the fetched set is non-empty but no message passes
\* is_work_message, the Run completes successfully, hands exactly one
\* statistics-only report to the transport (delivered once when a target is
\* configured and the transport works), and makes no summarization call and no
\* archive step.
C12_StatsOnlyReport ==
    (last.started /\ last.fetched # <<>> /\ last.work = <<>>) =>
        /\ last.returned # "False"
        /\ last.report = "stats"
        /\ last.calls = <<>>
        /\ last.all_reports = <<>>
        /\ last.run_id \notin archived
        /\ last.archive = "none"
        /\ \A k \in SentOfLast : sent[k].kind = "stats" /\ sent[k].chats = <<>>
        /\ target_user_id => last.send \in {"pending", "ok", "failed"}
        /\ Cardinality(SentOfLast) = IF last.send = "ok" THEN 1 ELSE 0

\* a Run over personal messages only, with an ArchiveManager, whose statistics
\* report was delivered
C12_Witness ==
    /\ Completed
    /\ last.fetched # <<>>
    /\ last.work = <<>>
    /\ archive_manager
    /\ last.send = "ok"
    /\ \E k \in SentOfLast : sent[k].kind = "stats"

\* C13: a failure of the summarization call for one chat is isolated: that
\* chat contributes nothing to the digest, every other group of the Run is
\* still summarized, and the Run completes and delivers the summaries of the
\* chats that succeeded.
C13_FailureIsolated ==
    (last.started /\ last.run_id # 0) =>
        /\ last.calls = [k \in DOMAIN last.groups |-> last.groups[k].chat_id]
        /\ last.all_reports = SelectSeq(last.calls, LAMBDA c : c \notin last.failed)
        /\ last.returned # "False"
        /\ last.all_reports # <<>> => last.report = "digest"
        /\ (last.all_reports # <<>> /\ last.send = "ok") =>
               \E k \in SentOfLast :
                   sent[k].kind = "digest" /\ sent[k].chats = last.all_reports

\* a Run of two groups: the call of the first fails, the summary of the second
\* is delivered
C13_Witness ==
    /\ Completed
    /\ Len(last.calls) = 2
    /\ last.calls[1] \in last.failed
    /\ last.calls[2] \notin last.failed
    /\ last.send = "ok"
    /\ \E k \in SentOfLast : sent[k].chats = <<last.calls[2]>>

\* C14: when the fetch of a Run fails (get_new_messages raises), the Run is
\* marked failed, run_hourly_analysis returning False as it does not for an
\* empty window, and no report is sent.
C14_FetchFailureMarksRunFailed ==
    (Completed /\ ~last.fetch_ok) =>
        /\ last.returned = "False"
        /\ last.report = "none"
        /\ SentOfLast = {}

\* the report rows the store holds for a run
ReportChats(run_id) ==
    {reports[k].chat_id : k \in {j \in DOMAIN reports : reports[j].run_id = run_id}}

\* C15: no partial digest is sent: when a Run is at the send of its digest,
\* and in every digest delivered, the summaries merged are those of all the
\* calls of that Run that returned a result, every group of the Run having been
\* called, and each was produced by that same Run.
C15_NoPartialDigest ==
    /\ \A p \in Triggers :
           (pc[p] = "send" /\ run[p].report = "digest") =>
               /\ run[p].run_id = last.run_id =>
                      /\ Len(run[p].calls) = Len(last.groups)
                      /\ SetOf(run[p].all_reports) = SetOf(last.calls) \ last.failed
               /\ ReportChats(run[p].run_id) \subseteq SetOf(run[p].all_reports)
    /\ \A k \in DOMAIN sent :
           sent[k].kind = "digest" =>
               /\ ReportChats(sent[k].run_id) \subseteq SetOf(sent[k].chats)
               /\ sent[k].run_id = last.run_id =>
                      SetOf(sent[k].chats) = SetOf(last.calls) \ last.failed

\* a digest of two summaries delivered by a Run of two groups
C15_Witness ==
    /\ Completed
    /\ Len(last.groups) = 2
    /\ last.failed = {}
    /\ \E k \in SentOfLast : sent[k].kind = "digest" /\ Len(sent[k].chats) = 2

\* C18: a Run with a non-empty fetched set, a configured target and a working
\* transport sends exactly one report: a digest iff at least one chat produced
\* a summary in that Run, a statistics report otherwise.
C18_OneReportOfTheRightShape ==
    (last.started /\ last.fetched # <<>> /\ target_user_id) =>
        /\ last.send # "none"
        /\ last.send = "ok" =>
               /\ Cardinality(SentOfLast) = 1
               /\ \A k \in SentOfLast :
                      sent[k].kind = IF last.all_reports # <<>> THEN "digest" ELSE "stats"

\* a Run whose every summarization call failed and whose statistics report was
\* delivered
C18_Witness ==
    /\ Completed
    /\ target_user_id
    /\ last.work # <<>>
    /\ last.failed = SetOf(last.calls)
    /\ last.send = "ok"
    /\ \E k \in SentOfLast : sent[k].kind = "stats"

(* ------------------------- claims on the merge ------------------------ *)
\* the number of entries the chats before the k-th bring to a list
RECURSIVE EntriesBefore(_, _)
EntriesBefore(lens, k) ==
    IF k <= 1 THEN 0 ELSE lens[k - 1] + EntriesBefore(lens, k - 1)

\* the j-th entry of the lists of length lens[k] of the chats, taken one chat
\* after the other
MergedEntry(reps, kind, lens, j) ==
    LET k == CHOOSE n \in DOMAIN reps :
                 EntriesBefore(lens, n) < j /\ j <= EntriesBefore(lens, n) + lens[n]
    IN <<reps[k].chat_id, kind, j - EntriesBefore(lens, k)>>

\* a section holds the first min(cap, n) of the n merged entries, in order
FirstOfMerged(section, reps, kind, lens, cap) ==
    LET n == EntriesBefore(lens, Len(reps) + 1)
    IN  /\ Len(section) = IF n < cap THEN n ELSE cap
        /\ \A j \in DOMAIN section : section[j] = MergedEntry(reps, kind, lens, j)

\* C16: truncation is applied to the merged lists, not per chat: the digest
\* holds exactly the first min(6, n) merged agreements, the first min(3, n)
\* merged risks and the first min(5, n) merged recommendations, in merged
\* order.
C16_MergedListsTruncated ==
    lastMerge.called =>
        LET r == lastMerge.reports
        IN  /\ FirstOfMerged(lastMerge.sections.agreements, r, "agreement",
                    [k \in DOMAIN r |-> Len(r[k].summary.agreements)], 6)
            /\ FirstOfMerged(lastMerge.sections.risks, r, "risk",
                    [k \in DOMAIN r |-> Len(r[k].summary.risks)], 3)
            /\ FirstOfMerged(lastMerge.sections.recommendations, r, "recommendation",
                    [k \in DOMAIN r |-> Len(r[k].summary.recommendations)], 5)

\* 8 agreements, 4 risks and 6 recommendations over two chats, each chat under
\* the cap of agreements on its own: the digest holds 6, 3 and 5, the sixth
\* agreement being the second of the second chat
C16_Witness ==
    /\ lastMerge.called
    /\ Len(lastMerge.reports) = 2
    /\ Len(lastMerge.reports[1].summary.agreements) = 4
    /\ Len(lastMerge.reports[2].summary.agreements) = 4
    /\ Len(lastMerge.reports[1].summary.risks)
           + Len(lastMerge.reports[2].summary.risks) = 4
    /\ Len(lastMerge.reports[1].summary.recommendations)
           + Len(lastMerge.reports[2].summary.recommendations) = 6
    /\ Len(lastMerge.sections.agreements) = 6
    /\ Len(lastMerge.sections.risks) = 3
    /\ Len(lastMerge.sections.recommendations) = 5
    /\ lastMerge.sections.agreements[6] = <<lastMerge.reports[2].chat_id, "agreement", 2>>

(* --------------------- claims on the order of a digest ---------------- *)
\* the place in the fetch of the first work message of a chat
FirstWorkPlace(c) ==
    CHOOSE a \in DOMAIN last.fetched :
        /\ messages[last.fetched[a]].chat_id = c
        /\ is_work_message(custom_keywords, messages[last.fetched[a]].text)
        /\ \A b \in DOMAIN last.fetched :
               (/\ messages[last.fetched[b]].chat_id = c
                /\ is_work_message(custom_keywords, messages[last.fetched[b]].text))
                   => a <= b

\* the place of a row in the fetch
PlaceOf(i) == CHOOSE a \in DOMAIN last.fetched : last.fetched[a] = i

\* the entries of a section come chat after chat in the order of chats, and in
\* their own order within a chat, none missing
InChatOrder(section, chatSeq, kind, len(_)) ==
    /\ \A j \in DOMAIN section, n \in DOMAIN section :
           j < n =>
               LET kj == CHOOSE k \in DOMAIN chatSeq : chatSeq[k] = section[j][1]
                   kn == CHOOSE k \in DOMAIN chatSeq : chatSeq[k] = section[n][1]
               IN kj < kn \/ (kj = kn /\ section[j][3] < section[n][3])
    /\ SetOf(section) =
           UNION {{<<chatSeq[k], kind, i>> : i \in 1 .. len(chatSeq[k])} :
                     k \in DOMAIN chatSeq}

\* C17: the merged lists are the concatenation of the per-chat lists in chat
\* processing order; the chats are processed in the order of the first work
\* message of each chat in the timestamp-ascending fetch; within a chat the
\* entries keep their order and the messages of a group are in
\* timestamp-ascending order.
C17_MergeFollowsFetchOrder ==
    (last.started /\ last.run_id # 0) =>
        /\ \A a \in DOMAIN last.fetched, b \in DOMAIN last.fetched :
               a < b => messages[last.fetched[a]].ts <= messages[last.fetched[b]].ts
        /\ \A k \in DOMAIN last.groups, n \in DOMAIN last.groups :
               k < n => FirstWorkPlace(last.groups[k].chat_id)
                            < FirstWorkPlace(last.groups[n].chat_id)
        /\ \A k \in DOMAIN last.groups :
               \A a \in DOMAIN last.groups[k].msgs, b \in DOMAIN last.groups[k].msgs :
                   a < b =>
                       /\ messages[last.groups[k].msgs[a]].ts
                              <= messages[last.groups[k].msgs[b]].ts
                       /\ PlaceOf(last.groups[k].msgs[a]) < PlaceOf(last.groups[k].msgs[b])
        /\ last.calls = [k \in DOMAIN last.groups |-> last.groups[k].chat_id]
        /\ \A k \in SentOfLast :
               sent[k].kind = "digest" =>
                   /\ sent[k].chats = SelectSeq(last.calls, LAMBDA c : c \notin last.failed)
                   /\ InChatOrder(sent[k].sections.agreements, sent[k].chats, "agreement",
                          LAMBDA c : Len(ChatSummaryOf(c).agreements))
                   /\ InChatOrder(sent[k].sections.risks, sent[k].chats, "risk",
                          LAMBDA c : Len(ChatSummaryOf(c).risks))
                   /\ InChatOrder(sent[k].sections.recommendations, sent[k].chats,
                          "recommendation",
                          LAMBDA c : Len(ChatSummaryOf(c).recommendations))

\* a digest of two chats where the chat stored second wrote first: its entries
\* come first
C17_Witness ==
    /\ Completed
    /\ Len(messages) = 2
    /\ messages[1].chat_id = "c1"
    /\ messages[2].chat_id = "c2"
    /\ messages[2].ts < messages[1].ts
    /\ \E k \in SentOfLast :
           /\ sent[k].kind = "digest"
           /\ sent[k].chats = <<"c2", "c1">>
           /\ sent[k].sections.agreements
                  = ChatSummaryOf("c2").agreements \o ChatSummaryOf("c1").agreements

(* ------------------------- claims on the parser ----------------------- *)
\* the contents of the bullets of a section: marker stripped, whitespace
\* trimmed
ContentsOf(bullets) == [k \in DOMAIN bullets |-> bullets[k].content]

\* C19: for every response made of exactly the three labelled sections,
\* separated by blank lines and each a list of bulleted lines,
\* _parse_gpt_response returns three lists equal to the bullet contents of the
\* matching section, in order.
C19_ParseRoundTrip ==
    (lastParse.called /\ lastParse.wellformed) =>
        /\ lastParse.result.agreements = ContentsOf(lastParse.sections.agreements)
        /\ lastParse.result.risks = ContentsOf(lastParse.sections.risks)
        /\ lastParse.result.recommendations
               = ContentsOf(lastParse.sections.recommendations)

\* C20: a non-empty response with no recognizable section label parses into empty
\* agreements, empty risks and exactly one recommendation equal to the full
\* raw response.
C20_UnlabelledKeptAsRecommendation ==
    (lastParse.called /\ ~lastParse.wellformed /\ lastParse.response # <<>>) =>
        /\ lastParse.result.agreements = <<>>
        /\ lastParse.result.risks = <<>>
        /\ lastParse.result.recommendations = <<lastParse.response>>

(* ------------------------ claims on the context ----------------------- *)
\* the lines of a character string, split at the line feeds
RECURSIVE LinesOf(_, _)
LinesOf(str, cur) ==
    IF str = <<>> THEN <<cur>>
    ELSE IF Head(str) = "nl" THEN <<cur>> \o LinesOf(Tail(str), <<>>)
    ELSE LinesOf(Tail(str), Append(cur, Head(str)))

\* whether a is a prefix of b
IsPrefix(a, b) == Len(a) <= Len(b) /\ a = SubSeq(b, 1, Len(a))

\* C21: for every list of messages, the context _prepare_context returns is
\* either the full context, when it fits the budget of max_tokens * 4
\* characters, or the first budget characters of the full context followed by
\* the truncation marker: the lines kept are the first lines of the full
\* context in their order, the last of them possibly cut.
C21_ContextIsPrefixPlusMarker ==
    (lastContext.called /\ lastContext.messages # <<>>) =>
        LET full == full_context(lastContext.messages)
            budget == lastContext.max_tokens * CharsPerToken
            res == lastContext.result
        IN  IF Len(full) <= budget
            THEN res = full
            ELSE /\ Len(res) = budget + Len(TruncationMarker)
                 /\ IsPrefix(SubSeq(res, 1, budget), full)
                 /\ SubSeq(res, budget + 1, Len(res)) = TruncationMarker
                 /\ LET kept == LinesOf(SubSeq(res, 1, budget), <<>>)
                        all == LinesOf(full, <<>>)
                    IN  /\ Len(kept) <= Len(all)
                        /\ \A k \in 1..(Len(kept) - 1) : kept[k] = all[k]
                        /\ IsPrefix(kept[Len(kept)], all[Len(kept)])

\* a list of two chats whose context is cut inside the second chat
C21_Witness ==
    /\ lastContext.called
    /\ Len(lastContext.messages) = 2
    /\ lastContext.messages[1].chat_id # lastContext.messages[2].chat_id
    /\ Len(full_context(lastContext.messages)) > lastContext.max_tokens * CharsPerToken
    /\ Len(LinesOf(SubSeq(lastContext.result, 1,
                          lastContext.max_tokens * CharsPerToken), <<>>)) > 3
    /\ SubSeq(lastContext.result, lastContext.max_tokens * CharsPerToken + 1,
              Len(lastContext.result)) = TruncationMarker

(* ------------------- claims on the errors of a Run -------------------- *)
\* C22: a failure of the archive step never affects the Run: the archive step
\* is attempted only in the digest branch and only once the send of the digest
\* has finished, and whether archiving succeeds, fails or is not configured,
\* the digest delivered is the one the Run prepared and the Run returns True.
C22_ArchiveNeverAffectsRun ==
    last.started =>
        /\ last.archive # "none" =>
               /\ last.report = "digest"
               /\ last.send \in {"ok", "failed", "none"}
               /\ last.returned = "True"
               /\ Cardinality(SentOfLast) = IF last.send = "ok" THEN 1 ELSE 0
               /\ \A k \in SentOfLast :
                      sent[k].kind = "digest" /\ sent[k].chats = last.all_reports
        /\ (last.run_id # 0 /\ last.run_id \in archived) => last.archive = "ok"
        /\ (last.report = "digest" /\ last.returned # "no") =>
               last.archive = IF archive_manager
                              THEN (IF last.run_id \in archived THEN "ok" ELSE "failed")
                              ELSE "off"

\* a Run whose digest was delivered and whose archive step then failed
C22_Witness ==
    /\ Completed
    /\ last.archive = "failed"
    /\ last.send = "ok"
    /\ last.returned = "True"
    /\ \E k \in SentOfLast : sent[k].kind = "digest" /\ sent[k].chats = last.all_reports

\* C23: a periodic trigger that fires late, within the grace time, runs with
\* the window of its intended fire time: the window of the Run is
\* [scheduled - 1h, scheduled), not a window computed from the delayed start.
C23_LateRunKeepsScheduledWindow ==
    (last.started /\ last.run_id # 0) =>
        /\ last.window_end = last.scheduled
        /\ last.window_start = last.scheduled - HourTicks

\* C24: no error of a Run stops the service: whatever fails in the store, the
\* provider, the transport or the archive step, run_hourly_analysis returns
\* True or False and never raises, it is unfinished only while it awaits its
\* send, and once it has returned its trigger is idle and /analyze invokes
\* run_hourly_analysis again (whatever the store then answers).
C24_RunErrorsNeverStopService ==
    /\ \A p \in Triggers : pc[p] \in {"idle", "send"}
    /\ last.started =>
           /\ last.returned \in {"True", "False", "no"}
           /\ last.returned = "no" <=>
                  \E p \in Triggers : pc[p] = "send" /\ run[p].run_id = last.run_id
           /\ last.run_id = 0 => last.returned = "False"
    /\ pc["manual"] = "idle" => ENABLED AnalyzeCommand(FALSE, TRUE, {}, {}, TRUE)

\* a Run in which a summarization call, the send of the digest and the archive
\* step all failed has returned True, and /analyze can start the next Run
C24_Witness ==
    /\ Completed
    /\ last.failed # {}
    /\ last.send = "failed"
    /\ last.archive = "failed"
    /\ last.returned = "True"
    /\ pc["manual"] = "idle"
    /\ ENABLED AnalyzeCommand(TRUE, TRUE, {}, {}, TRUE)

(* --------------------- claims on the digest of a Run ------------------ *)
\* the chats with at least one work message among the rows a Run fetched
ActiveChats ==
    {messages[i].chat_id :
        i \in {j \in SetOf(last.fetched) :
                  is_work_message(custom_keywords, messages[j].text)}}

\* the digests delivered for the Run started last
DigestsOfLast == {k \in SentOfLast : sent[k].kind = "digest"}

\* C25 (as stated): a Run produces one ChatSummary per distinct chat that has
\* at least one work message in its window, whether or not the chat is a work
\* chat, and the activeChatCount of the digest is the number of ChatSummaries
\* of that Run.
C25_SummaryPerActiveChat ==
    (last.started /\ last.run_id # 0) =>
        /\ SetOf(last.all_reports) = ActiveChats
        /\ Len(last.all_reports) = Cardinality(ActiveChats)
        /\ \A k \in DigestsOfLast :
               sent[k].active_chats_count = Len(sent[k].chats)

\* C25 (amended): a Run calls the provider once per distinct chat that has at
\* least one work message in its window, whether or not the chat is a work
\* chat, and produces one ChatSummary for each of these chats whose call
\* returned a result; the activeChatCount of the digest is the number of these
\* chats, which is the number of ChatSummaries plus the number of failed calls.
C25_SummaryPerSummarizedChat ==
    (last.started /\ last.run_id # 0) =>
        /\ SetOf(last.calls) = ActiveChats
        /\ Len(last.calls) = Cardinality(ActiveChats)
        /\ SetOf(last.all_reports) = ActiveChats \ last.failed
        /\ Len(last.all_reports) = Cardinality(ActiveChats \ last.failed)
        /\ \A k \in DigestsOfLast :
               /\ sent[k].active_chats_count = Cardinality(ActiveChats)
               /\ sent[k].active_chats_count
                      = Len(sent[k].chats) + Cardinality(last.failed)

\* a digest delivered for two active chats, one of them not a work chat, the
\* call of one of them having failed: it reports two active chats and merges
\* one summary
C25_Witness ==
    /\ Completed
    /\ Cardinality(ActiveChats) = 2
    /\ Cardinality(last.failed) = 1
    /\ \E c \in ActiveChats :
           ~is_work_chat(allow_chats, deny_chats, custom_keywords, c, ChatTitle(c))
    /\ \E k \in DigestsOfLast :
           sent[k].active_chats_count = 2 /\ Len(sent[k].chats) = 1

\* C26: a Run that ends through the error edge, run_hourly_analysis returning
\* False, has sent no digest and no statistics report: it prepared no report,
\* reached no send and no archive step, and nothing was delivered for it.
C26_FailedRunSendsNothing ==
    (last.started /\ last.returned = "False") =>
        /\ last.report = "none"
        /\ last.send = "none"
        /\ last.archive = "none"
        /\ last.calls = <<>>
        /\ \A p \in Triggers : pc[p] = "send" => run[p].run_id # last.run_id
        /\ \A k \in DOMAIN sent : sent[k].run_id # last.run_id

\* a Run over a store that holds work messages and refuses the runs row, with
\* a target configured: it returned False and nothing was sent
C26_Witness ==
    /\ last.started
    /\ last.returned = "False"
    /\ target_user_id
    /\ \E i \in DOMAIN messages : is_work_message(custom_keywords, messages[i].text)
    /\ sent = <<>>
    /\ pc["manual"] = "idle"

\* the calls of analyze_messages the Run started last made for chat c
CallsFor(c) == {k \in DOMAIN last.calls : last.calls[k] = c}

\* C27: no retry: the provider is called at most once per ChatGroup of a Run,
\* also when the call fails, and a failed call leaves that chat, and only that
\* chat, without a ChatSummary.
C27_NoRetry ==
    (last.started /\ last.run_id # 0) =>
        /\ Len(last.calls) = Len(last.groups)
        /\ \A c \in ChatIds : Cardinality(CallsFor(c)) <= 1
        /\ \A k \in DOMAIN last.groups :
               Cardinality(CallsFor(last.groups[k].chat_id)) = 1
        /\ \A c \in last.failed :
               Cardinality(CallsFor(c)) = 1 /\ c \notin SetOf(last.all_reports)
        /\ \A c \in SetOf(last.calls) \ last.failed : c \in SetOf(last.all_reports)

\* a Run of two groups in which the call of the second chat failed: it was
\* called once and the digest holds the summary of the first chat only
C27_Witness ==
    /\ Completed
    /\ Len(last.groups) = 2
    /\ last.failed = {last.groups[2].chat_id}
    /\ Cardinality(CallsFor(last.groups[2].chat_id)) = 1
    /\ last.all_reports = <<last.groups[1].chat_id>>
    /\ last.report = "digest"

\* C28: every ChatSummary merged into a digest has been recorded in the store,
\* by insert_report under the id of the Run that sends it, before the digest
\* is sent: when a Run is at the send of its digest, and for every digest
\* delivered, the reports table holds a row of that run id for each chat
\* merged, also when a write to the store failed during the Run.
C28_MergedSummariesAreStored ==
    /\ \A p \in Triggers :
           (pc[p] = "send" /\ run[p].report = "digest") =>
               SetOf(run[p].all_reports) \subseteq ReportChats(run[p].run_id)
    /\ \A k \in DOMAIN sent :
           sent[k].kind = "digest" =>
               SetOf(sent[k].chats) \subseteq ReportChats(sent[k].run_id)

\* C29: a failed send, or a missing target, is swallowed inside
\* _send_analysis_report / _send_statistics_report: the Run still returns
\* True, nothing is delivered for it, the rows insert_report wrote for it stay
\* written, and for a digest the archive step is still attempted.
C29_SendFailureSwallowed ==
    (Completed /\ last.report # "none" /\ last.send \in {"failed", "none"}) =>
        /\ last.returned = "True"
        /\ last.send = "failed" <=> target_user_id
        /\ SentOfLast = {}
        /\ ReportChats(last.run_id) = last.written
        /\ last.report = "digest" =>
               /\ last.archive \in {"off", "ok", "failed"}
               /\ archive_manager => last.archive \in {"ok", "failed"}
        /\ last.report = "stats" => last.archive = "none"

\* a Run whose digest could not be delivered: it returned True, its report
\* rows are in the store and its archive step was carried out
C29_Witness ==
    /\ Completed
    /\ last.report = "digest"
    /\ last.send = "failed"
    /\ last.returned = "True"
    /\ last.written # {}
    /\ ReportChats(last.run_id) = last.written
    /\ last.archive = "ok"
    /\ last.run_id \in archived

(* ------------------------ claims on the statistics -------------------- *)
\* the chat ids of the rows the Run started last fetched
FetchedChats == {messages[i].chat_id : i \in SetOf(last.fetched)}

\* the sum of the messages_count of the chats of a set
RECURSIVE SumCounts(_, _)
SumCounts(detail, cs) ==
    IF cs = {} THEN 0
    ELSE LET c == CHOOSE x \in cs : TRUE
         IN  detail[c].messages_count + SumCounts(detail, cs \ {c})

\* C30: in the statistics of _get_chats_statistics, work_chats +
\* personal_chats = total_chats = the number of distinct chat ids of the list,
\* the messages_count of the chats sum to total_messages = the length of the
\* list, and every distinct chat is classified exactly once, by is_work_chat,
\* also when none of its messages passes the message filter.
C30_StatisticsAddUp ==
    (last.started /\ last.fetched # <<>>) =>
        LET st == last.stats
        IN  /\ st.work_chats + st.personal_chats = st.total_chats
            /\ st.total_chats = Cardinality(FetchedChats)
            /\ DOMAIN st.chats_detail = FetchedChats
            /\ SumCounts(st.chats_detail, FetchedChats) = st.total_messages
            /\ st.total_messages = Len(last.fetched)
            /\ \A c \in FetchedChats :
                   /\ st.chats_detail[c].is_work
                          = is_work_chat(allow_chats, deny_chats, custom_keywords,
                                         c, TitleOf(chats, c))
                   /\ st.chats_detail[c].messages_count >= 1
            /\ st.work_chats
                   = Cardinality({c \in FetchedChats : st.chats_detail[c].is_work})
            /\ st.personal_chats
                   = Cardinality({c \in FetchedChats : ~st.chats_detail[c].is_work})

\* two chats fetched, none with a work message: one is counted as a work
\* chat, the other as a personal chat
C30_Witness ==
    /\ last.started
    /\ Len(last.fetched) = 2
    /\ last.work = <<>>
    /\ last.stats.total_chats = 2
    /\ last.stats.work_chats = 1
    /\ last.stats.personal_chats = 1
    /\ \A c \in FetchedChats : last.stats.chats_detail[c].messages_count = 1

====
